---------------------------- MODULE Spec2Model ----------------------------
(***************************************************************************)
(* A model of transcriber.py: the two pure text functions                  *)
(* (sanitize_filename, vtt_to_plaintext) and the two orchestrators         *)
(* (extract_audio_from_video, get_youtube_transcript_text), each call run  *)
(* by one worker, the workers sharing the disk and the clock.              *)
(*                                                                         *)
(* A Python str is a sequence of one-character strings.  A value that may  *)
(* be None is NONE or Some(v); a language code or an error message that    *)
(* may be None is the string "None" or the code or message.                *)
(*                                                                         *)
(* SpecText applies the text functions to every input of a bounded set.    *)
(* Spec runs NumReqs calls of the orchestrators under every interleaving,  *)
(* the engine (yt-dlp) and FFmpeg behaving in every way their interface    *)
(* allows.                                                                 *)
(***************************************************************************)
EXTENDS Integers, Sequences, FiniteSets, TLC

\* ------------------------------------------------------------------------
\* Characters
\* ------------------------------------------------------------------------

\* The line break that str.splitlines() splits on and "\n".join() inserts.
NL == "\n"

\* U+00A0 NO-BREAK SPACE, the first argument of the first replace() of line 67.
NBSP == "nbsp"

\* The characters str.strip() removes (str.isspace), as far as inputs hold them.
Whitespace == {" ", NBSP}

\* str.isdigit() on the characters the inputs hold.
DigitChars == {"0", "1", "2", "3", "4", "5", "6", "7", "8", "9"}

\* str.isalnum() on the characters the inputs hold.
AlnumChars == {"a", "b", "i", "u", "W", "E", "B", "V", "T"} \cup DigitChars

\* ------------------------------------------------------------------------
\* str helpers
\* ------------------------------------------------------------------------

RECURSIVE LStrip(_, _)
LStrip(s, chars) ==
    IF s # <<>> /\ Head(s) \in chars THEN LStrip(Tail(s), chars) ELSE s

RECURSIVE RStrip(_, _)
RStrip(s, chars) ==
    IF s # <<>> /\ s[Len(s)] \in chars
    THEN RStrip(SubSeq(s, 1, Len(s) - 1), chars)
    ELSE s

\* str.strip(): surrounding whitespace removed.
Strip(s) == RStrip(LStrip(s, Whitespace), Whitespace)

\* sub in s
Contains(s, sub) ==
    \E i \in 1..(Len(s) - Len(sub) + 1) : SubSeq(s, i, i + Len(sub) - 1) = sub

\* The index of the first c in s, 0 when there is none.
FirstIndex(s, c) ==
    IF \E i \in 1..Len(s) : s[i] = c
    THEN CHOOSE i \in 1..Len(s) : s[i] = c /\ \A j \in 1..(i - 1) : s[j] # c
    ELSE 0

RECURSIVE SplitAcc(_, _, _)
SplitAcc(s, cur, acc) ==
    IF s = <<>>
    THEN IF cur = <<>> THEN acc ELSE Append(acc, cur)
    ELSE IF Head(s) = NL
         THEN SplitAcc(Tail(s), <<>>, Append(acc, cur))
         ELSE SplitAcc(Tail(s), Append(cur, Head(s)), acc)

\* str.splitlines(): a final line break opens no further line.
SplitLines(s) == SplitAcc(s, <<>>, <<>>)

RECURSIVE JoinLines(_)
\* "\n".join(lines)
JoinLines(lines) ==
    IF lines = <<>> THEN <<>>
    ELSE IF Len(lines) = 1 THEN lines[1]
         ELSE lines[1] \o <<NL>> \o JoinLines(Tail(lines))

\* ------------------------------------------------------------------------
\* sanitize_filename
\* ------------------------------------------------------------------------

\* The default of max_length.
DefaultMaxLength == 60

\* Lines 43 and 45: a space becomes '_', then every character that is neither
\* alphanumeric nor '-' nor '_' becomes '_'.
SafeChar(c) ==
    LET c1 == IF c = " " THEN "_" ELSE c
    IN  IF c1 \in AlnumChars \/ c1 \in {"-", "_"} THEN c1 ELSE "_"

RECURSIVE CollapseUnderscores(_)
\* Line 46: re.sub(r'_+', '_', s)
CollapseUnderscores(s) ==
    IF Len(s) < 2 THEN s
    ELSE IF s[1] = "_" /\ s[2] = "_"
         THEN CollapseUnderscores(Tail(s))
         ELSE <<s[1]>> \o CollapseUnderscores(Tail(s))

\* s[:max_length]
Truncate(s, max_length) ==
    SubSeq(s, 1, IF Len(s) < max_length THEN Len(s) ELSE max_length)

sanitize_filename(name_str, max_length) ==
    LET s1 == [i \in 1..Len(name_str) |-> SafeChar(name_str[i])]
        s2 == CollapseUnderscores(s1)
        s3 == RStrip(LStrip(s2, {"_"}), {"_"})
    IN  Truncate(s3, max_length)

\* ------------------------------------------------------------------------
\* vtt_to_plaintext
\* ------------------------------------------------------------------------

WEBVTT == <<"W", "E", "B", "V", "T", "T">>

Arrow == <<"-", "-", ">">>

\* str.isdigit(): non-empty and digits only (so no letter, line 60).
IsDigit(s) == s # <<>> /\ \A i \in 1..Len(s) : s[i] \in DigitChars

\* Lines 58-60: the header, a timing line or a cue number.
IsSkippedLine(line_stripped) ==
    \/ line_stripped = WEBVTT
    \/ Contains(line_stripped, Arrow)
    \/ IsDigit(line_stripped)

RECURSIVE StripTags(_)
\* Line 65: re.sub(r'<[^>]+>', '', s).  A match starts at a '<' whose next '>'
\* is at least two characters on, and ends at that '>'; the scan resumes
\* after it.
StripTags(s) ==
    IF s = <<>> THEN <<>>
    ELSE IF Head(s) = "<" /\ FirstIndex(Tail(s), ">") >= 2
         THEN StripTags(SubSeq(s, FirstIndex(Tail(s), ">") + 2, Len(s)))
         ELSE <<Head(s)>> \o StripTags(Tail(s))

\* Line 67 as the file holds it: U+00A0 becomes a space, and the three other
\* replace() calls map '&', '<' and '>' to themselves.
ReplaceEntities(s) ==
    [i \in 1..Len(s) |-> IF s[i] = NBSP THEN " " ELSE s[i]]

\* Lines 65-67
CleanLine(line_stripped) == ReplaceEntities(StripTags(line_stripped))

RECURSIVE ProcessLines(_)
\* Lines 55-68: processed_lines of the physical lines.
ProcessLines(lines) ==
    IF lines = <<>> THEN <<>>
    ELSE LET line_stripped == Strip(Head(lines))
         IN  IF IsSkippedLine(line_stripped) \/ line_stripped = <<>>
             THEN ProcessLines(Tail(lines))
             ELSE <<CleanLine(line_stripped)>> \o ProcessLines(Tail(lines))

\* last_added_line_stripped = None.  The variable otherwise holds a non-empty
\* stripped line, so the empty line stands for None.
NoLine == <<>>

\* Every text line is added, a repeated one too.
KeepsAnyText(text_line, last) == Strip(text_line) # <<>>

\* Line 78: a text line is added when it differs from the last added one.
KeepsText(text_line, last) ==
    Strip(text_line) # <<>> /\ Strip(text_line) # last

\* Line 81: an empty line is added after a text line.
KeepsBlank(text_line, last) ==
    Strip(text_line) = <<>> /\ last # NoLine

RECURSIVE Dedup(_, _, _)
\* Lines 74-83
Dedup(lines, last, acc) ==
    IF lines = <<>> THEN acc
    ELSE LET text_line == Head(lines)
         IN  IF KeepsText(text_line, last)
             THEN Dedup(Tail(lines), Strip(text_line), Append(acc, text_line))
             ELSE IF KeepsBlank(text_line, last)
                  THEN Dedup(Tail(lines), NoLine, Append(acc, text_line))
                  ELSE Dedup(Tail(lines), last, acc)

\* deduplicated_text_lines
DeduplicatedLines(vtt_content) ==
    Dedup(ProcessLines(SplitLines(vtt_content)), NoLine, <<>>)

vtt_to_plaintext(vtt_content) == JoinLines(DeduplicatedLines(vtt_content))


\* ------------------------------------------------------------------------
\* The text functions applied to bounded inputs
\* ------------------------------------------------------------------------

\* The number of pieces a subtitle input is made of.
MaxPieces == 5

\* The number of characters of a name given to sanitize_filename.
MaxNameLen == 3

\* What a subtitle input is made of: text, blanks, line breaks, an inline
\* tag, the parts of a timing arrow, the header and a cue number.
Pieces ==
    { <<"a">>, <<" ">>, <<NL>>, <<"<", "i", ">">>, <<">">>, <<"-", "-">>,
      WEBVTT, <<"1">> }

RECURSIVE Flatten(_)
Flatten(ps) == IF ps = <<>> THEN <<>> ELSE Head(ps) \o Flatten(Tail(ps))

VttInputs ==
    { Flatten(ps) : ps \in UNION { [1..n -> Pieces] : n \in 0..MaxPieces } }

NameChars == {"a", "1", " ", "!", "_", "-"}

NameInputs == UNION { [1..n -> NameChars] : n \in 0..MaxNameLen }

\* ------------------------------------------------------------------------
\* The orchestrators: state
\* ------------------------------------------------------------------------

\* The number of requests the workers handle, each by one call of
\* extract_audio_from_video or of get_youtube_transcript_text.
NumReqs == 2

\* The last second datetime.now() reaches; the first is 0.
MaxClock == 1

Reqs == 1..NumReqs

\* 'subtitleslangs' of line 181
Langs == {"en", "ro"}

\* None, and a value that is not None.
NONE == <<>>
Some(x) == <<x>>

\* The titles the engine's metadata give: two that sanitize to the same
\* name, and one of punctuation only.
Titles == { <<"a", " ", "b">>, <<"a", "_", "b">>, <<"!">> }

\* uuid.uuid4().hex of the id-th call of uuid4, as text.
IdChar(id) == <<"1", "2", "3">>[id]

\* Line 117: the title of an info_dict without one.
DefaultTitle(id) == <<"u", "_", IdChar(id)>>

\* audio_format
AudioFormat == "mp3"

\* The content of the subtitle file the engine writes for a language.
VttSample(lang) ==
    IF lang = "en"
    THEN Flatten(<< WEBVTT, <<NL, NL>>,
                    <<"1", NL>>, <<"0">>, Arrow, <<"2", NL>>, <<"a", NL, NL>>,
                    <<"2", NL>>, <<"2">>, Arrow, <<"4", NL>>, <<"a", NL, NL>>,
                    <<"3", NL>>, <<"4">>, Arrow, <<"6", NL>>,
                    <<"<", "i", ">", "b", "<", "/", "i", ">", NL>> >>)
    ELSE Flatten(<< WEBVTT, <<NL, NL>>, <<"0">>, Arrow, <<"2", NL>>, <<"b", NL>> >>)

VARIABLES
    tpc,          \* which text function is applied, and how far
    vtt_content,  \* the argument of vtt_to_plaintext
    kept,         \* deduplicated_text_lines of the first application
    text,         \* vtt_to_plaintext(vtt_content)
    text2,        \* vtt_to_plaintext(text)
    name_str,     \* the argument of sanitize_filename
    max_length,   \* its max_length
    safe_name     \* sanitize_filename(name_str, max_length)

tvars == <<tpc, vtt_content, kept, text, text2, name_str, max_length, safe_name>>

VARIABLES
    pc,               \* where each request's call is
    kind,             \* which orchestrator the request runs
    result,           \* result_paths / result_data
    uid,              \* the uuid of temp_vtt_basename
    written,          \* the languages whose file the engine wrote for the call
    vtt_path,         \* actual_lang_code of downloaded_vtt_path, or "None"
    folder,           \* request_folder_name: <<current_time_str, sanitized title>>
    error_code,       \* what ydl.download returned, -1 before
    wrote,            \* whether the request's own download wrote its audio file
    engine_calls,     \* how many calls of the engine the audio call has made
    made_dir,         \* whether the audio call has created its directory
    ffmpeg_ok,        \* what is_ffmpeg_available() returned to the call
    transcripts_temp, \* the files of TRANSCRIPTS_TEMP_DIR: <<uuid, lang>>
    downloads_dirs,   \* the directories of DOWNLOADS_BASE_DIR
    downloads_files,  \* the files under DOWNLOADS_BASE_DIR: <<folder, format>>
    clock,            \* datetime.now(), in seconds
    next_id           \* the number of the next call of uuid.uuid4()

ovars ==
    <<pc, kind, result, uid, written, vtt_path, folder, error_code, wrote,
      engine_calls, made_dir, ffmpeg_ok, transcripts_temp, downloads_dirs,
      downloads_files, clock, next_id>>

vars == <<tvars, ovars>>

\* Lines 109 and 169, with the keys of both dictionaries.
NoResult ==
    [ error |-> "None",
      audio_server_path |-> NONE,
      audio_relative_path |-> NONE,
      transcript_text |-> NONE,
      language_detected |-> "None" ]

InitRequests ==
    /\ pc = [r \in Reqs |-> "idle"]
    /\ kind = [r \in Reqs |-> "none"]
    /\ result = [r \in Reqs |-> NoResult]
    /\ uid = [r \in Reqs |-> 0]
    /\ written = [r \in Reqs |-> {}]
    /\ vtt_path = [r \in Reqs |-> "None"]
    /\ folder = [r \in Reqs |-> NONE]
    /\ error_code = [r \in Reqs |-> -1]
    /\ wrote = [r \in Reqs |-> FALSE]
    /\ engine_calls = [r \in Reqs |-> 0]
    /\ made_dir = [r \in Reqs |-> FALSE]
    /\ ffmpeg_ok = [r \in Reqs |-> "unchecked"]
    /\ transcripts_temp = {}
    /\ downloads_dirs = {}
    /\ downloads_files = {}
    /\ clock = 0
    /\ next_id = 1

\* No text function is being applied.
TextIdle ==
    /\ tpc = "off"
    /\ vtt_content = <<>>
    /\ kept = <<>>
    /\ text = <<>>
    /\ text2 = <<>>
    /\ name_str = <<>>
    /\ max_length = DefaultMaxLength
    /\ safe_name = <<>>

Init == TextIdle /\ InitRequests

\* Workers are interchangeable: request r is the r-th to arrive.
MayStart(r) ==
    /\ pc[r] = "idle"
    /\ \A q \in Reqs : q < r => pc[q] # "idle"

\* ------------------------------------------------------------------------
\* The text functions applied to bounded inputs: actions
\* ------------------------------------------------------------------------

InitText ==
    /\ tpc \in {"vtt", "name"}
    /\ vtt_content \in (IF tpc = "vtt" THEN VttInputs ELSE {<<>>})
    /\ name_str \in (IF tpc = "name" THEN NameInputs ELSE {<<>>})
    /\ max_length \in (IF tpc = "name"
                       THEN (1..MaxNameLen) \cup {DefaultMaxLength}
                       ELSE {DefaultMaxLength})
    /\ kept = <<>>
    /\ text = <<>>
    /\ text2 = <<>>
    /\ safe_name = <<>>
    /\ InitRequests

\* text = vtt_to_plaintext(vtt_content)
Normalize ==
    /\ tpc = "vtt"
    /\ kept' = DeduplicatedLines(vtt_content)
    /\ text' = vtt_to_plaintext(vtt_content)
    /\ tpc' = "normalized"
    /\ UNCHANGED <<vtt_content, text2, name_str, max_length, safe_name, ovars>>

\* text2 = vtt_to_plaintext(text)
Renormalize ==
    /\ tpc = "normalized"
    /\ text2' = vtt_to_plaintext(text)
    /\ tpc' = "renormalized"
    /\ UNCHANGED <<vtt_content, kept, text, name_str, max_length, safe_name, ovars>>

\* safe_name = sanitize_filename(name_str, max_length)
Sanitize ==
    /\ tpc = "name"
    /\ safe_name' = sanitize_filename(name_str, max_length)
    /\ tpc' = "sanitized"
    /\ UNCHANGED <<vtt_content, kept, text, text2, name_str, max_length, ovars>>

NextText == Normalize \/ Renormalize \/ Sanitize

SpecText == InitText /\ [][NextText]_vars

\* ------------------------------------------------------------------------
\* extract_audio_from_video
\* ------------------------------------------------------------------------

\* The variables of the transcript calls and of the clock.
NotOfAudio == <<uid, written, vtt_path, transcripts_temp, clock>>

\* Lines 161-164: any exception becomes the error of the result.
AudioUnexpected(res) == [res EXCEPT !.error = "unexpected"]

\* Lines 105-107
FfmpegMissing ==
    [NoResult EXCEPT !.error = "ffmpeg_missing"]

\* The call goes on to the engine although FFmpeg is missing.
AudioStartNoReturn(r) ==
    /\ MayStart(r)
    /\ kind' = [kind EXCEPT ![r] = "audio"]
    /\ \E available \in BOOLEAN :
        /\ ffmpeg_ok' = [ffmpeg_ok EXCEPT ![r] = IF available THEN "yes" ELSE "no"]
        /\ result' = [result EXCEPT ![r] = IF available THEN NoResult ELSE FfmpegMissing]
        /\ pc' = [pc EXCEPT ![r] = "a_meta"]
    /\ UNCHANGED <<folder, error_code, wrote, engine_calls, made_dir,
                   downloads_dirs, downloads_files, next_id, NotOfAudio, tvars>>

\* Lines 101-109: the call starts; without FFmpeg it returns the error at once.
AudioStart(r) ==
    /\ MayStart(r)
    /\ kind' = [kind EXCEPT ![r] = "audio"]
    /\ \E available \in BOOLEAN :
        /\ ffmpeg_ok' = [ffmpeg_ok EXCEPT ![r] = IF available THEN "yes" ELSE "no"]
        /\ result' = [result EXCEPT ![r] = IF available THEN NoResult ELSE FfmpegMissing]
        /\ pc' = [pc EXCEPT ![r] = IF available THEN "a_meta" ELSE "done"]
    /\ UNCHANGED <<folder, error_code, wrote, engine_calls, made_dir,
                   downloads_dirs, downloads_files, next_id, NotOfAudio, tvars>>

\* Lines 120-128: the folder is named after the second and the title; an
\* existing folder is not created again.
AudioNamed(r, video_title) ==
    LET name == <<clock, sanitize_filename(video_title, DefaultMaxLength)>>
    IN  /\ folder' = [folder EXCEPT ![r] = Some(name)]
        /\ pc' = [pc EXCEPT ![r] =
                    IF name \in downloads_dirs THEN "a_download" ELSE "a_makedirs"]
        /\ UNCHANGED result

\* Lines 110-128: the metadata query, then the name of the folder.
AudioMetadata(r) ==
    /\ pc[r] = "a_meta"
    /\ engine_calls' = [engine_calls EXCEPT ![r] = @ + 1]
    /\ \/ \* extract_info raises
          /\ result' = [result EXCEPT ![r] = AudioUnexpected(@)]
          /\ pc' = [pc EXCEPT ![r] = "done"]
          /\ UNCHANGED <<folder, next_id>>
       \/ \* the info_dict has a title
          /\ \E video_title \in Titles : AudioNamed(r, video_title)
          /\ UNCHANGED next_id
       \/ \* the info_dict has none
          /\ AudioNamed(r, DefaultTitle(next_id))
          /\ next_id' = next_id + 1
    /\ UNCHANGED <<kind, error_code, wrote, made_dir, ffmpeg_ok,
                   downloads_dirs, downloads_files, NotOfAudio, tvars>>

\* Line 129: os.makedirs raises FileExistsError when the folder has appeared
\* since line 128.
AudioMakedirs(r) ==
    /\ pc[r] = "a_makedirs"
    /\ IF folder[r][1] \in downloads_dirs
       THEN /\ result' = [result EXCEPT ![r] = AudioUnexpected(@)]
            /\ pc' = [pc EXCEPT ![r] = "done"]
            /\ UNCHANGED <<downloads_dirs, made_dir>>
       ELSE /\ downloads_dirs' = downloads_dirs \cup {folder[r][1]}
            /\ made_dir' = [made_dir EXCEPT ![r] = TRUE]
            /\ pc' = [pc EXCEPT ![r] = "a_download"]
            /\ UNCHANGED result
    /\ UNCHANGED <<kind, folder, error_code, wrote, engine_calls, ffmpeg_ok,
                   downloads_files, next_id, NotOfAudio, tvars>>

\* Lines 135-148: the download and the conversion, by the engine.
AudioDownload(r) ==
    /\ pc[r] = "a_download"
    /\ engine_calls' = [engine_calls EXCEPT ![r] = @ + 1]
    /\ \/ \* ydl.download raises
          /\ result' = [result EXCEPT ![r] = AudioUnexpected(@)]
          /\ pc' = [pc EXCEPT ![r] = "done"]
          /\ UNCHANGED <<error_code, wrote, downloads_files>>
       \/ \* it returns an error code
          /\ error_code' = [error_code EXCEPT ![r] = 1]
          /\ result' = [result EXCEPT ![r].error = "ytdlp_failed"]
          /\ pc' = [pc EXCEPT ![r] = "done"]
          /\ UNCHANGED <<wrote, downloads_files>>
       \/ \* it returns 0 and the file is where the template says
          /\ error_code' = [error_code EXCEPT ![r] = 0]
          /\ downloads_files' = downloads_files \cup {<<folder[r][1], AudioFormat>>}
          /\ wrote' = [wrote EXCEPT ![r] = TRUE]
          /\ pc' = [pc EXCEPT ![r] = "a_verify"]
          /\ UNCHANGED result
       \/ \* it returns 0 and has written no such file
          /\ error_code' = [error_code EXCEPT ![r] = 0]
          /\ pc' = [pc EXCEPT ![r] = "a_verify"]
          /\ UNCHANGED <<result, wrote, downloads_files>>
    /\ UNCHANGED <<kind, folder, made_dir, ffmpeg_ok, downloads_dirs, next_id,
                   NotOfAudio, tvars>>

\* Lines 151-152
AudioPaths(res, name) ==
    [res EXCEPT !.audio_server_path = Some(<<"api_downloads", name, AudioFormat>>),
                !.audio_relative_path = Some(<<name, AudioFormat>>)]

\* The error is set and the paths stay.
AudioNotFoundKeepsPaths(res) == [res EXCEPT !.error = "not_found"]

\* Lines 155-157
AudioNotFound(res) ==
    [res EXCEPT !.error = "not_found",
                !.audio_server_path = NONE,
                !.audio_relative_path = NONE]

\* The paths are returned without a look at the disk.
AudioVerifyUnchecked(r) ==
    /\ pc[r] = "a_verify"
    /\ result' = [result EXCEPT ![r] = AudioPaths(@, folder[r][1])]
    /\ pc' = [pc EXCEPT ![r] = "done"]
    /\ UNCHANGED <<kind, folder, error_code, wrote, engine_calls, made_dir,
                   ffmpeg_ok, downloads_dirs, downloads_files, next_id,
                   NotOfAudio, tvars>>

\* Lines 150-160: the paths are returned only if the file is on disk.
AudioVerify(r) ==
    /\ pc[r] = "a_verify"
    /\ result' = [result EXCEPT ![r] =
                    IF <<folder[r][1], AudioFormat>> \in downloads_files
                    THEN AudioPaths(@, folder[r][1])
                    ELSE AudioNotFound(AudioPaths(@, folder[r][1]))]
    /\ pc' = [pc EXCEPT ![r] = "done"]
    /\ UNCHANGED <<kind, folder, error_code, wrote, engine_calls, made_dir,
                   ffmpeg_ok, downloads_dirs, downloads_files, next_id,
                   NotOfAudio, tvars>>

\* ------------------------------------------------------------------------
\* get_youtube_transcript_text
\* ------------------------------------------------------------------------

\* The variables of the audio calls and of the clock.
NotOfTranscript ==
    <<folder, error_code, wrote, engine_calls, made_dir, ffmpeg_ok,
      downloads_dirs, downloads_files, clock>>

\* Lines 166-190: the call starts and draws the name of its temporary file.
TranscriptStart(r) ==
    /\ MayStart(r)
    /\ kind' = [kind EXCEPT ![r] = "transcript"]
    /\ result' = [result EXCEPT ![r] = NoResult]
    /\ uid' = [uid EXCEPT ![r] = next_id]
    /\ next_id' = next_id + 1
    /\ pc' = [pc EXCEPT ![r] = "t_download"]
    /\ UNCHANGED <<written, vtt_path, transcripts_temp, NotOfTranscript, tvars>>

\* Lines 200-211: the first of 'en', 'ro' that requested_subtitles gives a
\* filepath for, with the file on disk.
RequestedLang(requested, present) ==
    IF "en" \in requested /\ "en" \in present THEN "en"
    ELSE IF "ro" \in requested /\ "ro" \in present THEN "ro"
    ELSE "None"

\* Lines 215-224: the first of 'ro', 'en' whose file <basename>.<lang>.vtt is
\* on disk.
ScannedLang(present) ==
    IF "ro" \in present THEN "ro"
    ELSE IF "en" \in present THEN "en"
    ELSE "None"

\* Lines 200-224: actual_lang_code
LocatedLang(requested, present) ==
    IF RequestedLang(requested, present) # "None"
    THEN RequestedLang(requested, present)
    ELSE ScannedLang(present)

\* The languages whose temporary file of request r is among the files.
Present(r, files) == {lang \in Langs : <<uid[r], lang>> \in files}

\* Lines 192-229 and 238-243.  The engine writes the subtitle files it finds
\* (any of the languages asked for) under the call's own name.  It then raises,
\* or returns an info_dict whose requested_subtitles either give the filepath
\* of every file written (and maybe of one that was not), or give none.
TranscriptDownload(r) ==
    /\ pc[r] = "t_download"
    /\ \E files \in SUBSET Langs :
        /\ written' = [written EXCEPT ![r] = files]
        /\ transcripts_temp' =
               transcripts_temp \cup {<<uid[r], lang>> : lang \in files}
        /\ \/ \* extract_info raises yt_dlp.utils.DownloadError
              /\ result' = [result EXCEPT ![r].error = "download_error"]
              /\ UNCHANGED vtt_path
           \/ \* extract_info raises another exception
              /\ result' = [result EXCEPT ![r].error = "unexpected"]
              /\ UNCHANGED vtt_path
           \/ \* extract_info returns
              \E requested \in SUBSET Langs :
                 /\ requested = {} \/ files \subseteq requested
                 /\ LET lang == LocatedLang(requested, Present(r, transcripts_temp'))
                    IN  /\ vtt_path' = [vtt_path EXCEPT ![r] = lang]
                        /\ result' = [result EXCEPT ![r].error =
                                        IF lang = "None" THEN "no_transcript" ELSE @]
    /\ pc' = [pc EXCEPT ![r] =
                IF vtt_path'[r] = "None" THEN "t_finally" ELSE "t_read"]
    /\ UNCHANGED <<kind, uid, next_id, NotOfTranscript, tvars>>

\* Lines 231-236 and 241-243: the file is read and converted.
TranscriptRead(r) ==
    /\ pc[r] = "t_read"
    /\ \/ \* open() or read() raises
          result' = [result EXCEPT ![r].error = "unexpected"]
       \/ result' = [result EXCEPT
              ![r].transcript_text = Some(vtt_to_plaintext(VttSample(vtt_path[r]))),
              ![r].language_detected = vtt_path[r]]
    /\ pc' = [pc EXCEPT ![r] = "t_finally"]
    /\ UNCHANGED <<kind, uid, written, vtt_path, transcripts_temp, next_id,
                   NotOfTranscript, tvars>>

\* Lines 244-252: the file that was located is removed, and the call returns.
\* os.remove is taken to succeed.
TranscriptFinally(r) ==
    /\ pc[r] = "t_finally"
    /\ transcripts_temp' =
           IF vtt_path[r] # "None"
           THEN transcripts_temp \ {<<uid[r], vtt_path[r]>>}
           ELSE transcripts_temp
    /\ pc' = [pc EXCEPT ![r] = "done"]
    /\ UNCHANGED <<kind, result, uid, written, vtt_path, next_id,
                   NotOfTranscript, tvars>>

\* ------------------------------------------------------------------------
\* The workers
\* ------------------------------------------------------------------------

\* A second passes.  The clock is read at line 120 only: a second that named
\* no folder is not told apart from the next one, and neither is a second
\* that no call is left to read.
Tick ==
    /\ clock < MaxClock
    /\ \E r \in Reqs : folder[r] # NONE /\ folder[r][1][1] = clock
    /\ \E r \in Reqs : pc[r] \in {"idle", "a_meta"}
    /\ clock' = clock + 1
    /\ UNCHANGED <<pc, kind, result, uid, written, vtt_path, folder, error_code,
                   wrote, engine_calls, made_dir, ffmpeg_ok, transcripts_temp,
                   downloads_dirs, downloads_files, next_id, tvars>>

Next ==
    \/ Tick
    \/ \E r \in Reqs :
        \/ AudioStart(r)
        \/ AudioMetadata(r)
        \/ AudioMakedirs(r)
        \/ AudioDownload(r)
        \/ AudioVerify(r)
        \/ TranscriptStart(r)
        \/ TranscriptDownload(r)
        \/ TranscriptRead(r)
        \/ TranscriptFinally(r)

Spec == Init /\ [][Next]_vars

\* ------------------------------------------------------------------------
\* Properties of the text functions
\* ------------------------------------------------------------------------

\* A '<...>' span of a line: what the pattern of line 65 matches.
HasTagSpan(line) ==
    \E i \in 1..Len(line) : \E j \in (i + 2)..Len(line) :
        /\ line[i] = "<"
        /\ line[j] = ">"
        /\ \A k \in (i + 1)..(j - 1) : line[k] # ">"

\* The lines of the returned text.
TextLines == SplitLines(text)

\* C2: the output of vtt_to_plaintext has no line that is the header token
\* WEBVTT, holds no '-->' and holds no '<...>' tag span, for every input.
C2_NoMarkupInOutput ==
    tpc = "normalized" =>
        \A i \in 1..Len(TextLines) :
            /\ Strip(TextLines[i]) # WEBVTT
            /\ ~Contains(TextLines[i], Arrow)
            /\ ~HasTagSpan(TextLines[i])

\* C3: vtt_to_plaintext is idempotent: applied to its own output it returns
\* that output unchanged.
C3_Idempotent == tpc = "renormalized" => text2 = text

\* No two neighbours of a sequence of lines are equal after trimming.
NoEqualNeighbours(lines) ==
    \A i \in 1..(Len(lines) - 1) : Strip(lines[i]) # Strip(lines[i + 1])

\* C4: no two consecutive lines of the output of vtt_to_plaintext are equal
\* after trimming: a line was kept only if its trimmed content differs from
\* that of the line kept just before it.
C4_NoConsecutiveDuplicate ==
    tpc \in {"normalized", "renormalized"} =>
        NoEqualNeighbours(kept) /\ NoEqualNeighbours(TextLines)

\* An input with two equal text lines in a row, of which one was dropped, and
\* an output of at least two lines.
C4_Witness ==
    LET processed == ProcessLines(SplitLines(vtt_content))
    IN  /\ tpc = "normalized"
        /\ Len(kept) >= 2
        /\ Len(kept) < Len(processed)
        /\ \E i \in 1..(Len(processed) - 1) :
               /\ Strip(processed[i]) # <<>>
               /\ Strip(processed[i]) = Strip(processed[i + 1])

\* C9: sanitize_filename returns a non-empty string for every name and every
\* max_length >= 1.
C9_NonEmpty == tpc = "sanitized" => safe_name # <<>>

\* ------------------------------------------------------------------------
\* Properties of the orchestrators
\* ------------------------------------------------------------------------

Returned(r) == pc[r] = "done"

Running(r) == pc[r] \notin {"idle", "done"}

\* C1: when get_youtube_transcript_text has returned, on any exit path, no
\* temporary file transcript_<id>.<lang>.vtt of that call is left on disk,
\* whatever languages the engine wrote.
C1_TempFilesGone ==
    \A r \in Reqs :
        kind[r] = "transcript" /\ Returned(r) =>
            Present(r, transcripts_temp) = {}

\* C5: a successful get_youtube_transcript_text reports 'en' whenever the
\* engine left an 'en' file, however the file was located, and 'ro' only
\* when there was no 'en' file.
C5_EnglishPreferred ==
    \A r \in Reqs :
        kind[r] = "transcript" /\ Returned(r) /\ result[r].error = "None" =>
            /\ "en" \in written[r] => result[r].language_detected = "en"
            /\ result[r].language_detected = "ro" => "en" \notin written[r]

\* The file {directory}/{base_name}.{format} of an audio call.
ExpectedFile(r) == <<folder[r][1], AudioFormat>>

AudioPathsNull(r) ==
    /\ result[r].audio_server_path = NONE
    /\ result[r].audio_relative_path = NONE

\* C6: a path returned by extract_audio_from_video is the path of a file on
\* disk; and when the download returned 0 but the expected file is absent,
\* the result carries an error and both paths are null.
C6_NoPhantomSuccess ==
    \A r \in Reqs :
        kind[r] = "audio" /\ Returned(r) =>
            /\ result[r].audio_server_path # NONE =>
                   LET p == result[r].audio_server_path[1]
                   IN  <<p[2], p[3]>> \in downloads_files
            /\ result[r].audio_relative_path # NONE =>
                   result[r].audio_relative_path[1] \in downloads_files
            /\ (error_code[r] = 0 /\ ExpectedFile(r) \notin downloads_files) =>
                   result[r].error # "None" /\ AudioPathsNull(r)

\* An audio call has returned after a download that returned 0 and left no
\* file.
C6_Witness ==
    \E r \in Reqs :
        /\ kind[r] = "audio" /\ Returned(r)
        /\ error_code[r] = 0 /\ ~wrote[r]
        /\ ExpectedFile(r) \notin downloads_files
        /\ result[r].error = "not_found"

\* The payload of a result: all of it set, none of it set.
PayloadSet(r) ==
    IF kind[r] = "audio"
    THEN /\ result[r].audio_server_path # NONE
         /\ result[r].audio_relative_path # NONE
    ELSE /\ result[r].transcript_text # NONE
         /\ result[r].language_detected # "None"

PayloadNull(r) ==
    /\ AudioPathsNull(r)
    /\ result[r].transcript_text = NONE
    /\ result[r].language_detected = "None"

\* C7: a result returned by either orchestrator has either no error and its
\* payload set, or an error and every payload field null.
C7_ResultOrError ==
    \A r \in Reqs :
        Returned(r) =>
            \/ result[r].error = "None" /\ PayloadSet(r)
            \/ result[r].error # "None" /\ PayloadNull(r)

\* A transcript call has returned a text, and an audio call has returned the
\* error of the missing file, after its paths were set.
C7_Witness ==
    /\ \E r \in Reqs :
           /\ kind[r] = "transcript" /\ Returned(r)
           /\ result[r].transcript_text # NONE
    /\ \E r \in Reqs :
           /\ kind[r] = "audio" /\ Returned(r)
           /\ result[r].error = "not_found"

\* C8: an audio call whose FFmpeg check failed has returned the error, and
\* has made no call of the engine and created no directory.
C8_NoEngineWithoutFfmpeg ==
    \A r \in Reqs :
        ffmpeg_ok[r] = "no" =>
            /\ Returned(r)
            /\ result[r].error = "ffmpeg_missing"
            /\ AudioPathsNull(r)
            /\ engine_calls[r] = 0
            /\ ~made_dir[r]

\* One audio call has failed the FFmpeg check, and another has passed it,
\* called the engine and created its directory.
C8_Witness ==
    \E r, q \in Reqs :
        /\ ffmpeg_ok[r] = "no" /\ Returned(r)
        /\ ffmpeg_ok[q] = "yes" /\ engine_calls[q] > 0 /\ made_dir[q]

\* C10: no two running requests share a path (two transcript calls have
\* different temporary names, two audio calls different folders), and an
\* audio call returns only a file of its own download.
C10_NoSharedPath ==
    /\ \A r, q \in Reqs :
           r # q /\ Running(r) /\ Running(q) =>
               /\ (kind[r] = "transcript" /\ kind[q] = "transcript") =>
                      uid[r] # uid[q]
               /\ (folder[r] # NONE /\ folder[q] # NONE) =>
                      folder[r] # folder[q]
    /\ \A r \in Reqs :
           (Returned(r) /\ result[r].audio_server_path # NONE) => wrote[r]

=============================================================================
